---- MODULE Spec2Model ----
(***************************************************************************)
(* Model of controllers/job.go of the artillery operator: the resource     *)
(* quota merge (MergePreservingExistingKeys), the Job builder              *)
(* (LoadTestReconciler.job) and the get-then-create reconciliation step    *)
(* (LoadTestReconciler.ensureJob) run by workers against a cluster.        *)
(***************************************************************************)
EXTENDS Integers, Sequences, FiniteSets, TLC

VARIABLES
    loadtests,   \* cluster: the stored LoadTest objects, by identity
    cluster,     \* cluster: the stored Jobs (set of records)
    queued,      \* identities waiting for a reconciliation
    pc,          \* per worker: position inside Reconcile/ensureJob
    instance,    \* per worker: the LoadTest handed to ensureJob
    jobArg,      \* per worker: the Job handed to ensureJob
    err,         \* per worker: the local variable err of ensureJob
    ret,         \* per worker: what ensureJob returned
    calls,       \* per worker: cluster calls issued by the current invocation
    events,      \* per LoadTest: the Created events recorded through r.Recorder
    creations,   \* per Job identity: the r.Create calls that stored a Job
    faults,      \* cluster call failures injected so far
    deletes,     \* per Job identity: the external deletions so far
    edits,       \* external LoadTest edits so far
    buildCall,   \* one call of job: the object before, after, the result
    mergeCall    \* one call of MergePreservingExistingKeys

recVars == <<loadtests, cluster, queued, pc, instance, jobArg, err, ret,
             calls, events, creations, faults, deletes, edits>>
pureVars == <<buildCall, mergeCall>>
vars == <<loadtests, cluster, queued, pc, instance, jobArg, err, ret,
          calls, events, creations, faults, deletes, edits, buildCall, mergeCall>>

----------------------------------------------------------------------------
(* Go values *)

\* A Go map is nil or a finite function; nil and empty are different values.
EmptyKV == [k \in {} |-> ""]
NilMap == [nil |-> TRUE, kv |-> EmptyKV]
MkMap(f) == [nil |-> FALSE, kv |-> f]
Keys(m) == DOMAIN m.kv

\* A Go slice of strings is nil or a sequence; nil and empty are different values.
NilSlice == [nil |-> TRUE, elems |-> <<>>]
MkSlice(s) == [nil |-> FALSE, elems |-> s]

\* Spec.Count is a Go int (64 bits): the value hi * 2^31 + lo, 0 <= lo < 2^31.
MaxInt32 == 2147483647
MkCount(h, l) == [hi |-> h, lo |-> l]
CountPositive(c) == c.hi > 0 \/ (c.hi = 0 /\ c.lo > 0)

\* int32(c): the low 32 bits of c read as a two's complement number.
ToInt32(c) == IF c.hi % 2 = 1 THEN (c.lo - MaxInt32) - 1 ELSE c.lo

----------------------------------------------------------------------------
(* MergePreservingExistingKeys *)

Put(f, k, q) == [x \in (DOMAIN f) \cup {k} |-> IF x = k THEN q ELSE f[x]]

RECURSIVE MergeLoopOverwrite(_, _, _)
MergeLoopOverwrite(dest, src, keys) ==
    IF keys = {} THEN dest
    ELSE LET k == CHOOSE x \in keys : TRUE
         IN  MergeLoopOverwrite(Put(dest, k, src[k]), src, keys \ {k})

RECURSIVE MergeLoop(_, _, _)
MergeLoop(dest, src, keys) ==
    IF keys = {} THEN dest
    ELSE LET k == CHOOSE x \in keys : TRUE
         IN  MergeLoop(IF k \in DOMAIN dest THEN dest ELSE Put(dest, k, src[k]),
                       src, keys \ {k})

\* ret: the returned map; dest, src: the caller's two maps after the call.
\* A non-nil dest is filled in place and returned; a nil dest stays nil in the
\* caller and a fresh map is returned.
MergePreservingExistingKeys(dest, src) ==
    IF dest.nil /\ src.nil
    THEN [ret |-> NilMap, dest |-> dest, src |-> src]
    ELSE LET start  == IF dest.nil THEN EmptyKV ELSE dest.kv
             merged == MkMap(MergeLoop(start, src.kv, Keys(src)))
         IN  [ret |-> merged, dest |-> IF dest.nil THEN dest ELSE merged, src |-> src]

----------------------------------------------------------------------------
(* LoadTestReconciler.job *)

\* The package constant WorkerImage; its value is opaque here.
WorkerImage == "WorkerImage"
DefaultLimits == MkMap([k \in {"cpu", "memory"} |-> IF k = "cpu" THEN "2" ELSE "4Gi"])
DefaultRequests == MkMap([k \in {"cpu", "memory"} |-> IF k = "cpu" THEN "2" ELSE "2Gi"])
DefaultArgs == MkSlice(<<"help">>)

NilResources == [nil |-> TRUE, Limits |-> NilMap, Requests |-> NilMap]
MkResources(l, r) == [nil |-> FALSE, Limits |-> l, Requests |-> r]

labels(v, component) ==
    [k \in {"artillery.io/test-name", "artillery.io/component", "artillery.io/part-of"} |->
        CASE k = "artillery.io/test-name" -> v.Name
          [] k = "artillery.io/component" -> component
          [] OTHER -> "loadtest"]

JobName(v) == v.Name

JobArgs(v) == IF ~v.Args.nil THEN v.Args ELSE DefaultArgs

JobParallelism(v) == IF CountPositive(v.Count) THEN ToInt32(v.Count) ELSE 1

\* unit: the built Job; v: the LoadTest the caller holds after the call (the
\* merges write through the maps of v.Spec.Resources).
job(v) ==
    LET mergeL == IF ~v.Resources.nil /\ ~v.Resources.Limits.nil
                  THEN MergePreservingExistingKeys(v.Resources.Limits, DefaultLimits)
                  ELSE [ret |-> DefaultLimits, dest |-> v.Resources.Limits, src |-> DefaultLimits]
        mergeR == IF ~v.Resources.nil /\ ~v.Resources.Requests.nil
                  THEN MergePreservingExistingKeys(v.Resources.Requests, DefaultRequests)
                  ELSE [ret |-> DefaultRequests, dest |-> v.Resources.Requests, src |-> DefaultRequests]
    IN  [unit |-> [Name         |-> JobName(v),
                   Namespace    |-> v.Namespace,
                   Labels       |-> labels(v, "loadtest-worker-master"),
                   Owner        |-> [Name |-> v.Name, Namespace |-> v.Namespace],
                   Parallelism  |-> JobParallelism(v),
                   Completions  |-> JobParallelism(v),
                   BackoffLimit |-> 0,
                   Image        |-> IF v.Image # "" THEN v.Image ELSE WorkerImage,
                   Limits       |-> mergeL.ret,
                   Requests     |-> mergeR.ret,
                   Args         |-> JobArgs(v)],
         v    |-> [v EXCEPT !.Resources =
                     IF v.Resources.nil THEN v.Resources
                     ELSE MkResources(mergeL.dest, mergeR.dest)]]

----------------------------------------------------------------------------
(* Calls of the two pure functions on drawn inputs *)

ResourceNames == {"cpu", "memory", "ephemeral-storage"}
Quantities == {"1", "8Gi"}
MapInputs == {NilMap} \cup
    {MkMap(f) : f \in UNION {[S -> Quantities] : S \in SUBSET ResourceNames}}
OverrideInputs == {NilMap, MkMap(EmptyKV),
                   MkMap([k \in {"memory"} |-> "8Gi"]),
                   MkMap([k \in {"cpu"} |-> "1"]),
                   MkMap([k \in {"cpu", "memory"} |-> IF k = "cpu" THEN "1" ELSE "8Gi"]),
                   MkMap([k \in {"ephemeral-storage"} |-> "1"])}
ResourcesInputs == {NilResources} \cup
    {MkResources(l, r) : l \in OverrideInputs,
                         r \in {NilMap, MkMap([k \in {"memory"} |-> "1"])}}
CountInputs == {MkCount(0, 0), MkCount(0, 1), MkCount(0, 3), MkCount(0, MaxInt32),
                MkCount(1, 0), MkCount(1, 5), MkCount(2, 0), MkCount(2, 7)}
ArgsInputs == {NilSlice, MkSlice(<<>>), MkSlice(<<"run", "-t">>)}
LoadTestInputs ==
    [Name : {"lt-a"}, Namespace : {"ns1"}, Count : CountInputs,
     Image : {"", "custom:1"}, Args : ArgsInputs, Resources : ResourcesInputs]

NoJob == [Name |-> "", Namespace |-> ""]
NoLoadTest == [Name |-> "", Namespace |-> ""]
IdleBuild == [phase |-> "idle", v0 |-> NoLoadTest, v |-> NoLoadTest, unit |-> NoJob]
IdleMerge == [phase |-> "idle", dest0 |-> NilMap, src0 |-> NilMap,
              dest |-> NilMap, src |-> NilMap, ret |-> NilMap]

PureInputs ==
    \/ /\ \E x \in LoadTestInputs :
             buildCall = [phase |-> "ready", v0 |-> x, v |-> x, unit |-> NoJob]
       /\ mergeCall = IdleMerge
    \/ /\ buildCall = IdleBuild
       /\ \E d \in MapInputs, s \in MapInputs :
             mergeCall = [phase |-> "ready", dest0 |-> d, src0 |-> s,
                          dest |-> d, src |-> s, ret |-> NilMap]

CallJob ==
    /\ buildCall.phase = "ready"
    /\ LET r == job(buildCall.v)
       IN  buildCall' = [buildCall EXCEPT !.phase = "done", !.v = r.v, !.unit = r.unit]
    /\ UNCHANGED <<mergeCall, recVars>>

CallMerge ==
    /\ mergeCall.phase = "ready"
    /\ LET r == MergePreservingExistingKeys(mergeCall.dest, mergeCall.src)
       IN  mergeCall' = [mergeCall EXCEPT !.phase = "done", !.dest = r.dest,
                                          !.src = r.src, !.ret = r.ret]
    /\ UNCHANGED <<buildCall, recVars>>

----------------------------------------------------------------------------
(* The cluster, the workers and ensureJob *)

MaxFaults == 1
MaxDeletes == 1
MaxEdits == 1

Workers == {"w1", "w2"}
\* Two LoadTests of one name in two namespaces.
Ids == {[Name |-> "lt-a", Namespace |-> "ns1"], [Name |-> "lt-a", Namespace |-> "ns2"]}
EditCounts == {MkCount(0, 1), MkCount(0, 3)}

Nil == "nil"
NotFound == "NotFound"
AlreadyExists == "AlreadyExists"
TransientErrors == {"Timeout", "Forbidden"}

RECURSIVE SumOver(_, _)
SumOver(f, S) == IF S = {} THEN 0
                 ELSE LET x == CHOOSE y \in S : TRUE IN f[x] + SumOver(f, S \ {x})
Total(f) == SumOver(f, DOMAIN f)

NoRet == [result |-> "pending", err |-> Nil]
IdOf(o) == [Name |-> o.Name, Namespace |-> o.Namespace]
Stored(name, namespace) == {u \in cluster : u.Name = name /\ u.Namespace = namespace}
Call(verb, res) == [verb |-> verb, res |-> res]

InitLoadTest(id) ==
    [Name |-> id.Name, Namespace |-> id.Namespace, Count |-> MkCount(0, 1),
     Image |-> "", Args |-> NilSlice,
     Resources |-> MkResources(MkMap([k \in {"memory"} |-> "8Gi"]), NilMap)]

RecInit ==
    /\ loadtests = [id \in Ids |-> InitLoadTest(id)]
    /\ cluster = {}
    /\ queued = [id \in Ids |-> TRUE]
    /\ pc = [w \in Workers |-> "idle"]
    /\ instance = [w \in Workers |-> NoLoadTest]
    /\ jobArg = [w \in Workers |-> NoJob]
    /\ err = [w \in Workers |-> Nil]
    /\ ret = [w \in Workers |-> NoRet]
    /\ calls = [w \in Workers |-> <<>>]
    /\ events = [id \in Ids |-> 0]
    /\ creations = [id \in Ids |-> 0]
    /\ faults = 0
    /\ deletes = [id \in Ids |-> 0]
    /\ edits = 0

Init ==
    /\ RecInit
    /\ buildCall = IdleBuild
    /\ mergeCall = IdleMerge

\* The caller: takes a queued identity, reads its LoadTest, builds the Job
\* with job and enters ensureJob.
Start(w, id) ==
    /\ pc[w] = "idle"
    /\ queued[id]
    /\ queued' = [queued EXCEPT ![id] = FALSE]
    /\ LET r == job(loadtests[id])
       IN  /\ instance' = [instance EXCEPT ![w] = r.v]
           /\ jobArg' = [jobArg EXCEPT ![w] = r.unit]
    /\ err' = [err EXCEPT ![w] = Nil]
    /\ ret' = [ret EXCEPT ![w] = NoRet]
    /\ calls' = [calls EXCEPT ![w] = <<>>]
    /\ pc' = [pc EXCEPT ![w] = "get"]
    /\ UNCHANGED <<loadtests, cluster, events, creations, faults, deletes, edits, pureVars>>

\* The branch of ensureJob on the error of r.Get.
GetBranchCreateWhenFound(e) ==
    CASE e = NotFound -> "create"
      [] e = Nil -> "create"
      [] OTHER -> "fail"

GetBranchFoundFails(e) ==
    CASE e # Nil /\ e = NotFound -> "create"
      [] OTHER -> "fail"

GetBranchNotFoundFails(e) ==
    CASE e # Nil -> "fail"
      [] OTHER -> "found"

GetBranch(e) ==
    CASE e # Nil /\ e = NotFound -> "create"
      [] e # Nil -> "fail"
      [] OTHER -> "found"

\* return &ctrl.Result{}, err
ReturnErrorAsSuccess(e) == [result |-> "nil", err |-> Nil]

ReturnErrorGeneric(e) == [result |-> "empty", err |-> "SubmissionError"]

ReturnError(e) == [result |-> "empty", err |-> e]

\* return nil, nil
ReturnNoop == [result |-> "nil", err |-> Nil]

\* What r.Get answers: the truth, or (while faults remain) a failure.
GetAnswers(w) ==
    {IF Stored(jobArg[w].Name, instance[w].Namespace) # {} THEN Nil ELSE NotFound}
    \cup (IF faults < MaxFaults THEN TransientErrors ELSE {})

\* ensureJob from its entry to r.Create, or to its return when it does not create.
Get(w) ==
    /\ pc[w] = "get"
    /\ \E e \in GetAnswers(w) :
         /\ err' = [err EXCEPT ![w] = e]
         /\ faults' = IF e \in TransientErrors THEN faults + 1 ELSE faults
         /\ calls' = [calls EXCEPT ![w] = Append(@, Call("get", e))]
         /\ CASE GetBranch(e) = "create" ->
                   /\ pc' = [pc EXCEPT ![w] = "create"]
                   /\ UNCHANGED ret
              [] GetBranch(e) = "fail" ->
                   /\ pc' = [pc EXCEPT ![w] = "returned"]
                   /\ ret' = [ret EXCEPT ![w] = ReturnError(e)]
              [] OTHER ->
                   /\ pc' = [pc EXCEPT ![w] = "returned"]
                   /\ ret' = [ret EXCEPT ![w] = ReturnNoop]
    /\ UNCHANGED <<loadtests, cluster, queued, instance, jobArg, events, creations,
                   deletes, edits, pureVars>>

\* What r.Create answers: the cluster refuses a second Job of one name and
\* namespace, stores the Job otherwise, or (while faults remain) fails.
CreateAnswers(w) ==
    {IF Stored(jobArg[w].Name, jobArg[w].Namespace) # {} THEN AlreadyExists ELSE Nil}
    \cup (IF faults < MaxFaults THEN TransientErrors ELSE {})

\* The branch of ensureJob on the error of r.Create.
CreateBranchIgnoreError(e) == "created"

CreateBranch(e) == IF e # Nil THEN "fail" ELSE "created"

\* ensureJob from r.Create to the event, or to its return when r.Create failed.
Create(w) ==
    /\ pc[w] = "create"
    /\ \E e \in CreateAnswers(w) :
         /\ err' = [err EXCEPT ![w] = e]
         /\ faults' = IF e \in TransientErrors THEN faults + 1 ELSE faults
         /\ calls' = [calls EXCEPT ![w] = Append(@, Call("create", e))]
         /\ IF e = Nil
            THEN /\ cluster' = cluster \cup {jobArg[w]}
                 /\ creations' = [creations EXCEPT ![IdOf(jobArg[w])] = @ + 1]
            ELSE UNCHANGED <<cluster, creations>>
         /\ IF CreateBranch(e) = "fail"
            THEN /\ pc' = [pc EXCEPT ![w] = "returned"]
                 /\ ret' = [ret EXCEPT ![w] = ReturnError(e)]
            ELSE /\ pc' = [pc EXCEPT ![w] = "event"]
                 /\ UNCHANGED ret
    /\ UNCHANGED <<loadtests, queued, instance, jobArg, events, deletes, edits, pureVars>>

\* ensureJob from r.Recorder.Eventf to its return.
Event(w) ==
    /\ pc[w] = "event"
    /\ events' = [events EXCEPT ![IdOf(instance[w])] = @ + 1]
    /\ calls' = [calls EXCEPT ![w] = Append(@, Call("event", Nil))]
    /\ ret' = [ret EXCEPT ![w] = ReturnNoop]
    /\ pc' = [pc EXCEPT ![w] = "returned"]
    /\ UNCHANGED <<loadtests, cluster, queued, instance, jobArg, err, creations,
                   faults, deletes, edits, pureVars>>

\* The caller: an error returned by ensureJob queues the identity again.
Return(w) ==
    /\ pc[w] = "returned"
    /\ queued' = IF ret[w].err # Nil
                 THEN [queued EXCEPT ![IdOf(instance[w])] = TRUE]
                 ELSE queued
    /\ pc' = [pc EXCEPT ![w] = "idle"]
    /\ instance' = [instance EXCEPT ![w] = NoLoadTest]
    /\ jobArg' = [jobArg EXCEPT ![w] = NoJob]
    /\ err' = [err EXCEPT ![w] = Nil]
    /\ ret' = [ret EXCEPT ![w] = NoRet]
    /\ calls' = [calls EXCEPT ![w] = <<>>]
    /\ UNCHANGED <<loadtests, cluster, events, creations, faults, deletes, edits, pureVars>>

\* Someone else deletes a stored Job; the change queues its owner.
ExternalDelete(u) ==
    /\ Total(deletes) < MaxDeletes
    /\ u \in cluster
    /\ cluster' = cluster \ {u}
    /\ deletes' = [deletes EXCEPT ![IdOf(u)] = @ + 1]
    /\ queued' = [queued EXCEPT ![u.Owner] = TRUE]
    /\ UNCHANGED <<loadtests, pc, instance, jobArg, err, ret, calls, events,
                   creations, faults, edits, pureVars>>

\* The user edits the count of a LoadTest; the change queues it.
ExternalEdit(id, c) ==
    /\ edits < MaxEdits
    /\ loadtests[id].Count # c
    /\ loadtests' = [loadtests EXCEPT ![id].Count = c]
    /\ edits' = edits + 1
    /\ queued' = [queued EXCEPT ![id] = TRUE]
    /\ UNCHANGED <<cluster, pc, instance, jobArg, err, ret, calls, events,
                   creations, faults, deletes, pureVars>>

Next ==
    \/ \E w \in Workers, id \in Ids : Start(w, id)
    \/ \E w \in Workers : Get(w)
    \/ \E w \in Workers : Create(w)
    \/ \E w \in Workers : Event(w)
    \/ \E w \in Workers : Return(w)
    \/ \E u \in cluster : ExternalDelete(u)
    \/ \E id \in Ids, c \in EditCounts : ExternalEdit(id, c)

Spec == Init /\ [][Next]_vars

\* ensureJob runs to its return once entered and the caller takes the result
\* (at each position exactly one of the four steps is enabled); a queued
\* identity is eventually handed to an idle worker.
Proceed(w) == Get(w) \/ Create(w) \/ Event(w) \/ Return(w)

Fairness ==
    /\ \A w \in Workers : WF_vars(Proceed(w))
    /\ \A id \in Ids : WF_vars(\E w \in Workers : Start(w, id))

LiveSpec == Init /\ [][Next]_vars /\ Fairness

PureNext == CallJob \/ CallMerge

PureInit == RecInit /\ PureInputs

PureSpec == PureInit /\ [][PureNext]_vars

----------------------------------------------------------------------------
(* Claims about ensureJob *)

CallsOf(w, verb) == {i \in DOMAIN calls[w] : calls[w][i].verb = verb}
UnitsOwnedBy(id) == {u \in cluster : u.Owner = id}
AtEvent(id) == {w \in Workers : pc[w] = "event" /\ IdOf(instance[w]) = id}

\* C1: at most one Job is stored per LoadTest identity, a stored Job carries
\* the name and namespace of its LoadTest, and an invocation calls r.Create
\* only as its second call, after its own r.Get answered not-found.
C1_OneUnitPerIdentity ==
    /\ \A id \in Ids : Cardinality(UnitsOwnedBy(id)) <= 1
    /\ \A u \in cluster : IdOf(u) = u.Owner
    /\ \A id \in Ids : creations[id] = deletes[id] + Cardinality(Stored(id.Name, id.Namespace))
    /\ \A w \in Workers : \A i \in CallsOf(w, "create") :
          i = 2 /\ calls[w][1] = Call("get", NotFound)

\* Both Jobs are stored, one of them created a second time after a deletion,
\* while a worker is about to create again.
C1_Witness ==
    /\ \A id \in Ids : Cardinality(UnitsOwnedBy(id)) = 1
    /\ \E id \in Ids : creations[id] = 2
    /\ \E w \in Workers : pc[w] = "create"

\* C2: when r.Get finds a Job, ensureJob returns (nil, nil) having issued no
\* other call: the stored Jobs, the events and the creations are as before.
C2_PresentIsNoop ==
    [][\A w \in Workers :
          (pc[w] = "get" /\ pc'[w] # "get" /\ err'[w] = Nil) =>
              /\ cluster' = cluster
              /\ events' = events
              /\ creations' = creations
              /\ pc'[w] = "returned"
              /\ ret'[w] = [result |-> "nil", err |-> Nil]
              /\ calls'[w] = <<Call("get", Nil)>>]_vars

\* A worker returned from the Present branch for a Job that was created
\* earlier and differs from the Job it built.
C2_Witness ==
    \E w \in Workers :
        /\ pc[w] = "returned"
        /\ calls[w] = <<Call("get", Nil)>>
        /\ ret[w] = [result |-> "nil", err |-> Nil]
        /\ creations[IdOf(jobArg[w])] = 1
        /\ \E u \in Stored(jobArg[w].Name, instance[w].Namespace) : u # jobArg[w]

\* What an invocation has called and what it returns, for C3.
C3_State ==
    \A w \in Workers :
        /\ Cardinality(CallsOf(w, "get")) <= 1
        /\ Cardinality(CallsOf(w, "create")) <= 1
        /\ pc[w] = "returned" =>
              /\ calls[w][1].verb = "get"
              /\ calls[w][1].res \notin {Nil, NotFound} =>
                    /\ Len(calls[w]) = 1
                    /\ ret[w] = [result |-> "empty", err |-> calls[w][1].res]
              /\ (Len(calls[w]) >= 2 /\ calls[w][2].res # Nil) =>
                    /\ Len(calls[w]) = 2
                    /\ calls[w][2].verb = "create"
                    /\ ret[w] = [result |-> "empty", err |-> calls[w][2].res]

\* C3: an invocation issues at most one r.Get and one r.Create; a failed r.Get
\* other than not-found is returned as it is after that single call, and a
\* failed r.Create is returned as it is; a returning r.Get leaves the stored
\* Jobs as they were.
C3_ErrorsPropagate ==
    /\ []C3_State
    /\ [][\A w \in Workers :
            (pc[w] = "get" /\ pc'[w] = "returned") => cluster' = cluster]_vars

\* One worker returned a failed lookup, the other a failed creation, and the
\* two errors differ.
C3_Witness ==
    \E w1, w2 \in Workers :
        /\ pc[w1] = "returned" /\ calls[w1] = <<Call("get", "Forbidden")>>
        /\ ret[w1].err = "Forbidden"
        /\ pc[w2] = "returned"
        /\ calls[w2] = <<Call("get", NotFound), Call("create", AlreadyExists)>>
        /\ ret[w2].err = AlreadyExists

\* What the loser of a race returns, and how many creations succeed, for C9.
C9_LoserState ==
    /\ \A id \in Ids : creations[id] = deletes[id] + Cardinality(Stored(id.Name, id.Namespace))
    /\ \A w \in Workers :
          (pc[w] = "returned" /\ Len(calls[w]) >= 2
             /\ calls[w][2] = Call("create", AlreadyExists)) =>
              /\ Len(calls[w]) = 2
              /\ ret[w] = [result |-> "empty", err |-> AlreadyExists]

\* C9: a r.Create that reaches the cluster while a Job of that identity is
\* stored changes neither the stored Jobs nor the events, and the invocation
\* returns the cluster's error (already-exists unless the call itself failed)
\* with a non-nil result and without an event; one creation succeeds per
\* absence of the Job.
C9_RaceLoserGetsError ==
    /\ []C9_LoserState
    /\ [][\A w \in Workers :
            (pc[w] = "create" /\ pc'[w] # "create"
               /\ Stored(jobArg[w].Name, jobArg[w].Namespace) # {}) =>
                /\ cluster' = cluster
                /\ events' = events
                /\ creations' = creations
                /\ pc'[w] = "returned"
                /\ ret'[w].result = "empty"
                /\ ret'[w].err \in {AlreadyExists} \cup TransientErrors
                /\ faults' = faults => ret'[w].err = AlreadyExists]_vars

\* Two invocations for one identity both looked up not-found; one created the
\* Job, the other returned already-exists; nothing was deleted.
C9_Witness ==
    \E w1, w2 \in Workers :
        /\ w1 # w2
        /\ pc[w1] = "returned"
        /\ calls[w1] = <<Call("get", NotFound), Call("create", Nil), Call("event", Nil)>>
        /\ pc[w2] = "returned"
        /\ calls[w2] = <<Call("get", NotFound), Call("create", AlreadyExists)>>
        /\ ret[w2].err = AlreadyExists
        /\ IdOf(instance[w1]) = IdOf(instance[w2])
        /\ deletes[IdOf(instance[w1])] = 0
        /\ events[IdOf(instance[w1])] = 1

\* C10: per LoadTest, the Created events recorded plus the invocations that
\* stand between their successful r.Create and their event equal the
\* successful creations; an invocation records an event only as its third
\* call, after its own successful r.Create, and returns only after it.
C10_EventsMatchCreations ==
    /\ \A id \in Ids : events[id] + Cardinality(AtEvent(id)) = creations[id]
    /\ \A w \in Workers :
          /\ \A i \in CallsOf(w, "event") :
                /\ i = 3
                /\ calls[w][1] = Call("get", NotFound)
                /\ calls[w][2] = Call("create", Nil)
          /\ (pc[w] = "returned" /\ Len(calls[w]) >= 2 /\ calls[w][2] = Call("create", Nil)) =>
                /\ Len(calls[w]) = 3
                /\ ret[w] = [result |-> "nil", err |-> Nil]

\* Two events were recorded for one LoadTest (its Job was deleted and created
\* again) while another invocation returned a failed creation.
C10_Witness ==
    /\ \E id \in Ids : events[id] = 2 /\ creations[id] = 2
    /\ \E w \in Workers :
          /\ pc[w] = "returned"
          /\ Len(calls[w]) = 2
          /\ calls[w][2].res # Nil

\* C8: with fair workers and finitely many failures, deletions and edits, a
\* Job that is absent is eventually stored.
C8_AbsentLeadsToPresent ==
    \A id \in Ids : (Stored(id.Name, id.Namespace) = {}) ~> (Stored(id.Name, id.Namespace) # {})

\* A Job is stored again after its deletion, after a cluster call failed.
C8_Witness ==
    \E id \in Ids :
        /\ deletes[id] >= 1
        /\ creations[id] = deletes[id] + 1
        /\ faults >= 1

----------------------------------------------------------------------------
(* Claims about MergePreservingExistingKeys and job *)

\* C4: the map MergePreservingExistingKeys(override, default) returns has the
\* keys of both maps, override's value at every key of override and default's
\* value at every other key; of two nil maps it is nil, and of nil and X it
\* is X key for key. A LoadTest overriding only limits.memory = 8Gi gets the
\* limits cpu: 2, memory: 8Gi.
C4_MergeKeepsOverride ==
    /\ mergeCall.phase = "done" =>
          LET o == mergeCall.dest0
              d == mergeCall.src0
              r == mergeCall.ret
          IN  /\ (o.nil /\ d.nil) => r.nil
              /\ ~(o.nil /\ d.nil) => ~r.nil
              /\ Keys(r) = Keys(o) \cup Keys(d)
              /\ \A k \in Keys(o) : r.kv[k] = o.kv[k]
              /\ \A k \in Keys(d) \ Keys(o) : r.kv[k] = d.kv[k]
              /\ o.nil => r.kv = d.kv
    /\ (buildCall.phase = "done" /\ ~buildCall.v0.Resources.nil
          /\ buildCall.v0.Resources.Limits = MkMap([k \in {"memory"} |-> "8Gi"])) =>
          buildCall.unit.Limits =
              MkMap([k \in {"cpu", "memory"} |-> IF k = "cpu" THEN "2" ELSE "8Gi"])

\* A merge whose override and default disagree on a key while the default
\* has a key of its own.
C4_Witness ==
    /\ mergeCall.phase = "done"
    /\ \E k \in Keys(mergeCall.dest0) \cap Keys(mergeCall.src0) :
          mergeCall.dest0.kv[k] # mergeCall.src0.kv[k]
    /\ Keys(mergeCall.src0) \ Keys(mergeCall.dest0) # {}
    /\ Keys(mergeCall.ret) = ResourceNames

CountMax1(c) == IF CountPositive(c) THEN c ELSE MkCount(0, 1)

\* C5: the built Job has parallelism = completions = max(count, 1), for every
\* count >= 0 (also a count beyond the 32-bit range).
C5_ParallelismIsMaxCount1 ==
    buildCall.phase = "done" =>
        /\ buildCall.unit.Parallelism = buildCall.unit.Completions
        /\ buildCall.unit.Parallelism >= 0
        /\ MkCount(0, buildCall.unit.Parallelism) = CountMax1(buildCall.v0.Count)

\* C6: the args of the built Job are the override when it is non-empty, and
\* the single default "help" when it is absent or empty.
C6_ArgsDefaultWhenEmpty ==
    buildCall.phase = "done" =>
        buildCall.unit.Args.elems =
            IF Len(buildCall.v0.Args.elems) > 0 THEN buildCall.v0.Args.elems
            ELSE <<"help">>

\* C7: after job returns, the LoadTest holds the field values it held before.
C7_JobLeavesInputUnchanged ==
    buildCall.phase = "done" => buildCall.v = buildCall.v0

====
